---- MODULE Spec2Model ----
(***************************************************************************)
(* Generation request orchestration of the FIBO command center backend:    *)
(* the in-memory result cache, the retry loop of generate_image, the       *)
(* generation records and batch_generate_images                            *)
(* (src/backend/routers/generation.py).                                    *)
(*                                                                         *)
(* The handlers are asyncio coroutines.  Code between two suspension       *)
(* points (the awaits on the intent resolver, on the upstream generation   *)
(* call and on asyncio.sleep) runs atomically, so one action of the model  *)
(* is one such stretch of code.  The stretches are written as operators    *)
(* from a world record (clock, cache, record store, coroutines, batch) to  *)
(* the next world record, so that a stretch that runs on into another      *)
(* coroutine (the sequential batch loop calling generate_image) composes.  *)
(* Time is in seconds.                                                     *)
(***************************************************************************)
EXTENDS Integers, Sequences, FiniteSets, TLC

VARIABLES now, generation_cache, generations, task, batch, admin

vars == <<now, generation_cache, generations, task, batch, admin>>

\* Python's None, where a str, an object (dict, model, exception) or a number
\* is expected
Null == "None"
NullObj == [none |-> TRUE]
NullNum == -1

\* a JSON value that is not an object where the code expects a dict
NotADict == [not_a_dict |-> TRUE]

\* ---------------------------------------------------------------- constants
\* CACHE_TTL = timedelta(hours=1), in seconds
CACHE_TTL == 3600

\* max_retries: Field(ge=0, le=5)
MAX_RETRIES_LIMIT == 5

\* GenerationRequest.prompt: min_length=3, max_length=2000
MIN_PROMPT == 3
MAX_PROMPT == 2000

\* BatchGenerationRequest.requests: min_items=1, max_items=50
MIN_ITEMS == 1
MAX_ITEMS == 50

\* ------------------------------------------------------------------- bounds
\* requests of one batch
MaxBatch == 3
\* largest max_retries of the requests of a client that posts several
MaxRetries == 1
\* the clock of the cache scenario moves while at most this many requests
\* have been answered
MaxAged == 2

\* -------------------------------------------------------------------- inputs
Modes == {"ai", "manual"}

\* A request that passed validation (GenerationRequest).
Request(prompt, mode, use_cache, max_retries, user_id) ==
    [prompt |-> prompt, mode |-> mode,
     camera_angle |-> IF mode = "manual" THEN "eye-level" ELSE Null,
     fov |-> Null,
     lighting |-> IF mode = "manual" THEN "studio" ELSE Null,
     color_palette |-> Null, composition |-> Null,
     style |-> IF mode = "manual" THEN "photorealistic" ELSE Null,
     project_id |-> NullNum, user_id |-> user_id,
     use_cache |-> use_cache, max_retries |-> max_retries]

\* the requests of the retry scenarios: every retry budget the validator admits
RetryPool ==
    { Request("a smartphone", m, u, k, 1) :
        m \in Modes, u \in BOOLEAN, k \in 0..MAX_RETRIES_LIMIT }

\* the requests of a client that posts several: one content per mode, with
\* and without the cache, every small retry budget
ClientPool ==
    { Request("a smartphone", m, u, k, 1) :
        m \in Modes, u \in BOOLEAN, k \in 0..MaxRetries }

\* requests that differ from one request in one field, for each of the twelve
\* fields of GenerationRequest
KeyBase == Request("a smartphone", "manual", TRUE, 0, 1)

KeyVariants ==
    [prompt |-> {"a red sports car"}, mode |-> {"ai"},
     camera_angle |-> {Null, "low-angle"}, fov |-> {"wide"},
     lighting |-> {"natural"}, color_palette |-> {"warm"},
     composition |-> {"centered"}, style |-> {"cinematic"},
     use_cache |-> {FALSE}, max_retries |-> {1},
     user_id |-> {2}, project_id |-> {7}]

KeyPool ==
    {KeyBase} \cup
    UNION { {[KeyBase EXCEPT ![f] = v] : v \in KeyVariants[f]} :
              f \in DOMAIN KeyVariants }

\* requests of one content per mode that use the cache and differ in the
\* fields that are not part of the key: the user, the project, the budget
HitBase(mode) == Request("a smartphone", mode, TRUE, 1, 1)

HitPool ==
    UNION { {HitBase(m), [HitBase(m) EXCEPT !.user_id = 2],
             [HitBase(m) EXCEPT !.project_id = 7],
             [HitBase(m) EXCEPT !.max_retries = 0]} : m \in Modes }

\* five distinct requests that use the cache (scenario E), in the order the
\* client posts them
CacheRequests ==
    [i \in 1..5 |->
        Request(<<"a smartphone", "a red sports car", "a peaceful garden",
                  "a mountain lake", "a city at night">>[i], "manual", TRUE, 0, 1)]

RECURSIVE Repeat(_, _)
\* the string of n copies of c
Repeat(c, n) ==
    IF n = 0 THEN ""
    ELSE LET half == Repeat(c, n \div 2)
         IN half \o half \o (IF n % 2 = 1 THEN c ELSE "")

\* bodies a client can post that differ from a valid request in one field: at
\* and beyond the limits of prompt and max_retries, a mode that does not
\* exist, parameter values in and out of the validators' lists, the empty
\* string
PostedVariants ==
    [prompt |-> {"ab", "abc", Repeat("a", MAX_PROMPT), Repeat("a", MAX_PROMPT + 1)},
     mode |-> {"ai", "automatic"},
     camera_angle |-> {"bird's-eye", "worm's-eye", ""},
     fov |-> {"telephoto", "macro"},
     lighting |-> {"hard", "rim"},
     color_palette |-> {"neon", "earth-tones"},
     composition |-> {"minimal", "symmetrical"},
     style |-> {"commercial", "artistic", "Cinematic"},
     max_retries |-> {-1, 1, MAX_RETRIES_LIMIT, MAX_RETRIES_LIMIT + 1}]

PostedRequests ==
    {KeyBase} \cup
    UNION { {[KeyBase EXCEPT ![f] = v] : v \in PostedVariants[f]} :
              f \in DOMAIN PostedVariants }

\* the requests of a batch: a manual one that uses the cache and retries, an
\* ai one that does neither
BatchPool ==
    { Request("a red sports car", "manual", TRUE, 1, 1),
      Request("a peaceful garden", "ai", FALSE, 0, 1) }

\* the request lists of a batch (min_items=1)
BatchInputs == UNION { [1..n -> BatchPool] : n \in 1..MaxBatch }

\* the request lists a client can post: those, the empty list, and a list of
\* one request too many
PostedBatchInputs ==
    BatchInputs \cup
    {<< >>, [i \in 1..(MAX_ITEMS + 1) |-> Request("a peaceful garden", "ai", FALSE, 0, 1)],
     <<Request("a peaceful garden", "neither", FALSE, 0, 1)>>}

\* what the upstream service can answer with on success: the URL of a new
\* image (one per generation), or a response that carries none
NewImageUrl(generation) == "https://img/" \o ToString(generation)
ImageUrls(generation) == {NewImageUrl(generation), Null}

\* the errors an upstream call can raise (str(e) of the exception)
UpstreamErrors == {"FIBO API error: timeout", "FIBO API error: 503"}

\* the one error of the runs where several coroutines interleave
OneError == {"FIBO API error: timeout"}

\* the intent resolver either answers or raises
ResolverOutcomes == {"ok", "error"}

\* analyze_intent returns whatever JSON the language model wrote: besides a
\* well-formed answer, an object without "parameters", one whose
\* "parameters" is not an object, one whose "reasoning" is not an object
ResolverShapes ==
    {"ok", "error", "no_parameters", "bad_parameters", "bad_reasoning"}

\* ------------------------------------------------------------ pure functions
\* the fields of key_data (lines 30-39)
KeyFields ==
    {"prompt", "mode", "camera_angle", "fov", "lighting", "color_palette",
     "composition", "style"}

\* the six generation parameters
ParamFields == KeyFields \ {"prompt", "mode"}

\* the values the validators of GenerationRequest accept (lines 104-138)
Accepted ==
    [camera_angle |-> {"eye-level", "low-angle", "high-angle", "dutch-tilt",
                       "bird's-eye"},
     fov |-> {"wide", "standard", "telephoto"},
     lighting |-> {"natural", "studio", "dramatic", "golden-hour", "soft", "hard"},
     color_palette |-> {"vibrant", "pastel", "monochrome", "warm", "cool", "neon"},
     composition |-> {"rule-of-thirds", "centered", "dynamic", "minimal"},
     style |-> {"photorealistic", "cinematic", "editorial", "commercial"}]

\* FIBOIntegration.get_parameter_options, which GET /parameters returns under
\* "parameters"
get_parameter_options ==
    [camera_angle |-> {"eye-level", "low-angle", "high-angle", "dutch-tilt",
                       "bird's-eye", "worm's-eye", "over-the-shoulder"},
     fov |-> {"wide", "standard", "telephoto", "ultra-wide", "macro"},
     lighting |-> {"natural", "studio", "dramatic", "golden-hour", "soft", "hard",
                   "rim", "backlit", "three-point"},
     color_palette |-> {"vibrant", "pastel", "monochrome", "warm", "cool", "neon",
                        "earth-tones", "jewel-tones"},
     composition |-> {"rule-of-thirds", "centered", "dynamic", "minimal",
                      "symmetrical", "leading-lines", "frame-within-frame"},
     style |-> {"photorealistic", "cinematic", "editorial", "commercial",
                "artistic", "documentary", "fashion", "product"}]

\* Python truthiness of an Optional[str]
Truthy(v) == v # Null /\ v # ""

\* a validator of a parameter: `if v and v not in [...]: raise`
valid_parameter(f, v) == ~(Truthy(v) /\ v \notin Accepted[f])

\* a slip: max_retries has no upper limit (le=5 omitted)
valid_request_without_le(raw) ==
    /\ Len(raw.prompt) >= MIN_PROMPT /\ Len(raw.prompt) <= MAX_PROMPT
    /\ raw.mode \in Modes
    /\ \A f \in ParamFields : valid_parameter(f, raw[f])
    /\ raw.max_retries >= 0

\* the validation of GenerationRequest (lines 85-138)
valid_request(raw) ==
    /\ Len(raw.prompt) >= MIN_PROMPT /\ Len(raw.prompt) <= MAX_PROMPT
    /\ raw.mode \in Modes
    /\ \A f \in ParamFields : valid_parameter(f, raw[f])
    /\ raw.max_retries >= 0 /\ raw.max_retries <= MAX_RETRIES_LIMIT

\* a slip: the retry budget is made part of the key
generate_cache_key_with_budget(request) ==
    <<request.camera_angle, request.color_palette, request.composition,
      request.fov, request.lighting, request.max_retries, request.mode,
      request.prompt, request.style>>

\* _generate_cache_key: json.dumps(key_data, sort_keys=True) hashed; the hash
\* is taken as injective, the key is the eight values in sorted key order.
generate_cache_key(request) ==
    <<request.camera_angle, request.color_palette, request.composition,
      request.fov, request.lighting, request.mode, request.prompt,
      request.style>>

\* a slip: an entry is taken as expired one second early
cache_fresh_one_second_early(cache, cache_key, t) ==
    /\ cache_key \in DOMAIN cache
    /\ t - cache[cache_key].timestamp < CACHE_TTL - 1

\* a slip: an entry is still taken as valid at the instant it expires
cache_fresh_through_expiry(cache, cache_key, t) ==
    /\ cache_key \in DOMAIN cache
    /\ t - cache[cache_key].timestamp <= CACHE_TTL

\* the entry of cache_key is present and younger than the TTL (lines 46-48)
cache_fresh(cache, cache_key, t) ==
    /\ cache_key \in DOMAIN cache
    /\ t - cache[cache_key].timestamp < CACHE_TTL

\* a slip: an entry stored at this very instant is not seen yet
get_cached_result_after_a_second(cache, cache_key, t) ==
    IF cache_fresh(cache, cache_key, t) /\ t > cache[cache_key].timestamp
    THEN cache[cache_key].data ELSE NullObj

\* _get_cached_result, the value returned
get_cached_result(cache, cache_key, t) ==
    IF cache_fresh(cache, cache_key, t) THEN cache[cache_key].data ELSE NullObj

\* a slip: a read that finds its entry expired sweeps every expired entry
cache_after_get_sweeps(cache, cache_key, t) ==
    IF cache_key \in DOMAIN cache /\ ~cache_fresh(cache, cache_key, t)
    THEN [k \in {j \in DOMAIN cache : cache_fresh(cache, j, t)} |-> cache[k]]
    ELSE cache

\* _get_cached_result, the cache it leaves: an expired entry is deleted
cache_after_get(cache, cache_key, t) ==
    IF cache_key \in DOMAIN cache /\ ~cache_fresh(cache, cache_key, t)
    THEN [k \in DOMAIN cache \ {cache_key} |-> cache[k]]
    ELSE cache

\* a slip: an entry that is there is kept (first writer wins)
cache_result_keeps_first(cache, cache_key, data, t) ==
    [k \in DOMAIN cache \cup {cache_key} |->
        IF k \in DOMAIN cache THEN cache[k] ELSE [data |-> data, timestamp |-> t]]

\* _cache_result
cache_result(cache, cache_key, data, t) ==
    [k \in DOMAIN cache \cup {cache_key} |->
        IF k = cache_key THEN [data |-> data, timestamp |-> t] ELSE cache[k]]

\* _calculate_quality_score, in hundredths
calculate_quality_score(parameters, result) ==
    LET param_count == Cardinality({f \in DOMAIN parameters : parameters[f] # Null})
        bonus == IF param_count * 5 < 30 THEN param_count * 5 ELSE 30
        score == 50 + bonus + (IF Truthy(result.image_url) THEN 20 ELSE 0)
    IN IF score < 100 THEN score ELSE 100

\* FIBOIntegration.generate, the value returned by a call that succeeds
fibo_generate(prompt, p, image_url) ==
    [status |-> "success", image_url |-> image_url,
     parameters |-> [prompt |-> prompt, camera_angle |-> p.camera_angle,
                     fov |-> p.fov, lighting |-> p.lighting,
                     color_palette |-> p.color_palette,
                     composition |-> p.composition, style |-> p.style]]

\* the arguments generate_image passes upstream in manual mode
ManualParams(request) ==
    [prompt |-> request.prompt, camera_angle |-> request.camera_angle,
     fov |-> request.fov, lighting |-> request.lighting,
     color_palette |-> request.color_palette,
     composition |-> request.composition, style |-> request.style]

\* the fallback of generate_image when analyze_intent raises
DefaultParams(request) ==
    [prompt |-> request.prompt, camera_angle |-> "eye-level",
     fov |-> "standard", lighting |-> "studio", color_palette |-> "vibrant",
     composition |-> "rule-of-thirds", style |-> "photorealistic"]

\* what params.get(...) yields when the answer has no "parameters": params is
\* {}, the prompt falls back to the request's, every parameter is None
EmptyParams(request) ==
    [prompt |-> request.prompt, camera_angle |-> Null, fov |-> Null,
     lighting |-> Null, color_palette |-> Null, composition |-> Null,
     style |-> Null]

\* an answer of analyze_intent: an enhanced prompt and a value per parameter
ResolvedParams(request) ==
    [prompt |-> request.prompt \o ", detailed", camera_angle |-> "low-angle",
     fov |-> "wide", lighting |-> "dramatic", color_palette |-> "warm",
     composition |-> "dynamic", style |-> "cinematic"]

\* HTTPException(status_code=500, detail=...)
HTTPException(detail) == [type |-> "HTTPException", status_code |-> 500, detail |-> detail]

\* str(e): the message of a plain Exception, "500: <detail>" of an HTTPException
Str(e) ==
    IF e.type = "HTTPException"
    THEN ToString(e.status_code) \o ": " \o e.detail
    ELSE e.message

\* the validation of GenerationResponse: reasoning is Optional[Dict[str, Any]]
\* (every other field of the payload has the declared type by construction)
ValidResponse(data) == data.reasoning # NotADict

\* str(e) of the pydantic ValidationError, first line
ValidationMessage == "1 validation error for GenerationResponse"

\* a slip: an answer from the cache starts its retry count afresh
GenerationResponse_hit_counts_afresh(data, cached) ==
    [id |-> data.id, status |-> data.status, image_url |-> data.image_url,
     parameters |-> data.parameters, quality_score |-> data.quality_score,
     generation_time |-> data.generation_time, reasoning |-> data.reasoning,
     retry_count |-> IF cached THEN 0 ELSE data.retry_count, cached |-> cached]

\* GenerationResponse(**data, cached=...)
GenerationResponse(data, cached) ==
    [id |-> data.id, status |-> data.status, image_url |-> data.image_url,
     parameters |-> data.parameters, quality_score |-> data.quality_score,
     generation_time |-> data.generation_time, reasoning |-> data.reasoning,
     retry_count |-> data.retry_count, cached |-> cached]

\* Generation(user_id=..., project_id=..., prompt=..., mode=..., status="processing")
NewGeneration(request) ==
    [user_id |-> request.user_id, project_id |-> request.project_id,
     prompt |-> request.prompt, mode |-> request.mode, status |-> "processing",
     result_url |-> Null, parameters |-> NullObj, quality_score |-> NullNum,
     generation_time |-> NullNum, error_message |-> Null,
     \* history: the status at each db.commit() of the record
     committed |-> <<"processing">>]

\* a coroutine of generate_image that has not been called yet
IdleTask ==
    [pc |-> "idle", request |-> NullObj, cache_key |-> << >>,
     start_time |-> NullNum, generation |-> NullNum, params |-> NullObj,
     reasoning |-> NullObj, attempt |-> 0, retry_count |-> 0,
     last_error |-> NullObj, wake |-> NullNum,
     response |-> NullObj, raised |-> NullObj,
     \* history, not program state: upstream calls made, the errors of the
     \* retry loop in order, resolver calls made, seconds slept, coroutines
     \* done at the call, the shape of the resolver's answer
     calls |-> 0, errlog |-> << >>, resolver_calls |-> 0, slept |-> 0,
     done_before |-> {}, shape |-> Null]

NoBatch ==
    [state |-> "none", requests |-> << >>, parallel |-> FALSE,
     continue_on_error |-> FALSE, results |-> << >>, errors |-> << >>,
     successful |-> 0, failed |-> 0, i |-> 0, finished |-> << >>,
     response |-> NullObj, raised |-> NullObj]

\* what the cache endpoints last answered: the value of "cleared" of the last
\* DELETE /cache, the answer of the last GET /cache/stats since; and history:
\* the cache as the last clear found it, the coroutines done at the clear and
\* at the stats query
NoAdmin ==
    [cleared |-> NullNum, stats |-> NullObj, found |-> << >>,
     done_at_clear |-> {}, done_at_stats |-> {}]

World == [now |-> now, cache |-> generation_cache, db |-> generations,
          task |-> task, batch |-> batch, admin |-> admin]

Becomes(w) ==
    \E next \in {w} :
        /\ now' = next.now
        /\ generation_cache' = next.cache
        /\ generations' = next.db
        /\ task' = next.task
        /\ batch' = next.batch
        /\ admin' = next.admin

Done(w) == {t \in DOMAIN w.task : w.task[t].pc = "done"}

\* the 422 answer of the framework to a body that fails validation; the
\* handler is not called
RequestValidationError ==
    [type |-> "RequestValidationError", status_code |-> 422]

\* ------------------------------------------------- generate_image, by stretch
\* the upstream call of the retry loop is issued (lines 247 / 276)
CallUpstream(w, t) ==
    [w EXCEPT !.task[t].pc = "calling", !.task[t].calls = @ + 1]

\* lines 188-216 and on to the first await: cache check, cached answer or a
\* new record, then the resolver call (ai) or the first upstream call (manual)
Enter(w, t, request) ==
    LET cache_key == generate_cache_key(request)
        cached_result == IF request.use_cache
                         THEN get_cached_result(w.cache, cache_key, w.now)
                         ELSE NullObj
        cache1 == IF request.use_cache
                  THEN cache_after_get(w.cache, cache_key, w.now)
                  ELSE w.cache
        called == [IdleTask EXCEPT !.request = request, !.cache_key = cache_key,
                                   !.start_time = w.now, !.done_before = Done(w)]
    IN IF cached_result # NullObj
       THEN IF ValidResponse(cached_result)
            THEN [w EXCEPT !.cache = cache1,
                           !.task[t] = [called EXCEPT
                               !.pc = "done",
                               !.response = GenerationResponse(cached_result, TRUE)]]
            \* the constructor raises; the handler of lines 335-344 has no
            \* record to update
            ELSE [w EXCEPT !.cache = cache1,
                           !.task[t] = [called EXCEPT
                               !.pc = "done",
                               !.raised = HTTPException(
                                   "Generation failed: " \o ValidationMessage)]]
       ELSE LET w1 == [w EXCEPT !.cache = cache1,
                                !.db = Append(@, NewGeneration(request)),
                                !.task[t] = [called EXCEPT
                                    !.generation = Len(w.db) + 1]]
            IN IF request.mode = "ai"
               THEN [w1 EXCEPT !.task[t].pc = "resolving",
                               !.task[t].resolver_calls = @ + 1]
               ELSE CallUpstream([w1 EXCEPT !.task[t].params = ManualParams(request)], t)

\* a slip: the zero-based attempt is taken as the count
RetryCountAfterFailure_zero_based(attempt) == attempt

\* a slip: the attempt about to be made is counted too
RetryCountAfterFailure_counts_next(attempt) == attempt + 2

\* the value of retry_count after a failed attempt (lines 259 / 288)
RetryCountAfterFailure(attempt) == attempt + 1

\* lines 256, 299-333: the upstream call returned, the record is completed,
\* the response is cached and returned
Succeeded(w, t, image_url) ==
    LET tk == w.task[t]
        result == fibo_generate(tk.params.prompt, tk.params, image_url)
        generation_time == w.now - tk.start_time
        quality_score == calculate_quality_score(result.parameters, result)
        response_data ==
            [id |-> tk.generation, status |-> "completed",
             image_url |-> result.image_url, parameters |-> result.parameters,
             quality_score |-> quality_score,
             generation_time |-> generation_time,
             reasoning |-> tk.reasoning, retry_count |-> tk.retry_count]
        w1 == [w EXCEPT
                 !.db[tk.generation] = [@ EXCEPT
                     !.status = "completed", !.committed = Append(@, "completed"),
                     !.result_url = result.image_url,
                     !.parameters = result.parameters,
                     !.generation_time = generation_time,
                     !.quality_score = quality_score],
                 !.cache = IF tk.request.use_cache
                           THEN cache_result(@, tk.cache_key, response_data, w.now)
                           ELSE @,
                 !.task[t].pc = "done"]
    IN IF ValidResponse(response_data)
       THEN [w1 EXCEPT !.task[t].response = GenerationResponse(response_data, FALSE)]
       \* line 333 raises after the commit and the cache write; the handler of
       \* lines 335-344 marks the record failed
       ELSE [w1 EXCEPT
               !.db[tk.generation] = [@ EXCEPT
                   !.status = "failed", !.committed = Append(@, "failed"),
                   !.error_message = ValidationMessage],
               !.task[t].raised =
                   HTTPException("Generation failed: " \o ValidationMessage)]

\* a slip: the backoff grows linearly
WaitTime_linear(attempt) == attempt + 1

\* the wait before the next attempt (lines 261 / 290)
WaitTime(attempt) == 2 ^ attempt

\* a slip: max_retries is taken as the number of attempts
AttemptsRemain_one_less(attempt, max_retries) == attempt + 1 < max_retries

\* the retry loop gives up when this is false (lines 260 / 289)
AttemptsRemain(attempt, max_retries) == attempt < max_retries

\* lines 257-266 and 335-344: the upstream call raised; sleep and retry, or
\* mark the record failed and raise HTTP 500 with the message of the error
Failed(w, t, message) ==
    LET tk == w.task[t]
        e == [type |-> "Exception", message |-> message]
        w1 == [w EXCEPT !.task[t].last_error = e,
                        !.task[t].retry_count = RetryCountAfterFailure(tk.attempt),
                        !.task[t].errlog = Append(@, message)]
    IN IF AttemptsRemain(tk.attempt, tk.request.max_retries)
       THEN [w1 EXCEPT !.task[t].pc = "sleeping",
                       !.task[t].wake = w.now + WaitTime(tk.attempt)]
       ELSE [w1 EXCEPT
               !.db[tk.generation] = [@ EXCEPT
                   !.status = "failed", !.committed = Append(@, "failed"),
                   !.error_message = Str(w1.task[t].last_error)],
               !.task[t].pc = "done",
               !.task[t].raised =
                   HTTPException("Generation failed: " \o Str(w1.task[t].last_error))]

\* an iteration of the retry loop up to its await: evaluating the arguments
\* of the upstream call raises AttributeError when params is not a dict, and
\* the except clause of the loop takes that as a failed attempt
Attempt(w, t) ==
    IF w.task[t].params = NotADict
    THEN Failed(w, t, "'str' object has no attribute 'get'")
    ELSE CallUpstream(w, t)

\* lines 222-238: analyze_intent answered or raised; then attempt 0
Resolved(w, t, outcome) ==
    LET request == w.task[t].request
        params == CASE outcome = "error" -> DefaultParams(request)
                    [] outcome = "no_parameters" -> EmptyParams(request)
                    [] outcome = "bad_parameters" -> NotADict
                    [] OTHER -> ResolvedParams(request)
        reasoning == CASE outcome = "error" ->
                              [note |-> "Using optimized defaults (AI unavailable)"]
                       [] outcome = "bad_reasoning" -> NotADict
                       [] OTHER -> [camera_angle |-> "why this angle"]
    IN Attempt([w EXCEPT !.task[t].params = params,
                         !.task[t].reasoning = reasoning,
                         !.task[t].shape = outcome], t)

\* asyncio.sleep returned, no sooner than wait_time after it was called:
\* the next iteration of the retry loop
Woke(w, t) ==
    LET tk == w.task[t]
    IN Attempt([w EXCEPT !.now = IF @ < tk.wake THEN tk.wake ELSE @,
                              !.task[t].attempt = @ + 1,
                              !.task[t].slept = @ + WaitTime(tk.attempt),
                              !.task[t].wake = NullNum], t)

\* --------------------------------------------------- batch_generate_images
\* lines 520-528
BatchReturn(w) ==
    [w EXCEPT !.batch.state = "returned",
              !.batch.response =
                  [total |-> Len(w.batch.requests),
                   successful |-> w.batch.successful, failed |-> w.batch.failed,
                   results |-> w.batch.results, errors |-> w.batch.errors]]

\* lines 530-532
BatchRaise(w, e) ==
    [w EXCEPT !.batch.state = "raised",
              !.batch.raised = HTTPException("Batch generation failed: " \o Str(e))]

\* process_single_generation re-raises what generate_image raised (line 473)
Reraise(continue_on_error) == ~continue_on_error

\* a slip: the loop stops at a failure whatever the flag says
StopAfterFailure_always(continue_on_error) == TRUE

\* a slip: the loop never stops at a failure
StopAfterFailure_never(continue_on_error) == FALSE

\* the sequential loop stops at a failure (line 517)
StopAfterFailure(continue_on_error) == ~continue_on_error

\* process_single_generation once generate_image returned or raised (lines
\* 467-475); index is 1-based here, so it is the source's index + 1
process_single_generation(w, index) ==
    LET tk == w.task[index]
        error_msg == "Generation " \o ToString(index) \o " failed: " \o Str(tk.raised)
    IN IF tk.raised = NullObj
       THEN [exception |-> NullObj, index |-> index, result |-> tk.response, error |-> Null]
       ELSE IF Reraise(w.batch.continue_on_error)
            THEN [exception |-> tk.raised, index |-> index, result |-> NullObj, error |-> Null]
            ELSE [exception |-> NullObj, index |-> index, result |-> NullObj, error |-> error_msg]

\* a slip: gather is called without return_exceptions
return_exceptions_omitted == FALSE

\* the flag of asyncio.gather(*tasks, return_exceptions=True) (line 484)
return_exceptions == TRUE

\* the outcomes of the tasks that raised, in the order they finished in
Exceptions(finished) ==
    SelectSeq(finished, LAMBDA f : f.item.exception # NullObj)

\* the await on asyncio.gather ends: when every task is done or, unless
\* exceptions are returned, as soon as a task raises
gather_ends(b) ==
    \/ Len(b.finished) = Len(b.requests)
    \/ ~return_exceptions /\ Exceptions(b.finished) # << >>

\* a slip: the outcomes are taken as they complete (asyncio.as_completed)
gather_completion_order(finished) ==
    [i \in 1..Len(finished) |-> finished[i].item]

\* the value of asyncio.gather: the outcomes in the order of the tasks,
\* whatever order they finished in
gather(finished) ==
    [i \in 1..Len(finished) |->
        (CHOOSE f \in {finished[j] : j \in 1..Len(finished)} : f.task = i).item]

\* a slip: a task that raised is recorded but not counted
CollectItem_exception_uncounted(b, item) ==
    IF item.exception # NullObj
    THEN [b EXCEPT !.errors = Append(@, Str(item.exception)),
                   !.results = Append(@, NullObj)]
    ELSE IF item.result # NullObj
         THEN [b EXCEPT !.successful = @ + 1,
                        !.results = Append(@, item.result),
                        !.errors = Append(@, Null)]
         ELSE [b EXCEPT !.failed = @ + 1,
                        !.results = Append(@, NullObj),
                        !.errors = Append(@, item.error)]

\* one iteration of the loop over completed (lines 487-501)
CollectItem(b, item) ==
    IF item.exception # NullObj
    THEN [b EXCEPT !.failed = @ + 1,
                   !.errors = Append(@, Str(item.exception)),
                   !.results = Append(@, NullObj)]
    ELSE IF item.result # NullObj
         THEN [b EXCEPT !.successful = @ + 1,
                        !.results = Append(@, item.result),
                        !.errors = Append(@, Null)]
         ELSE [b EXCEPT !.failed = @ + 1,
                        !.results = Append(@, NullObj),
                        !.errors = Append(@, item.error)]

RECURSIVE CollectFrom(_, _, _)
CollectFrom(b, completed, i) ==
    IF i > Len(completed) THEN b
    ELSE CollectFrom(CollectItem(b, completed[i]), completed, i + 1)

\* the parallel branch after the await (lines 484-501, 520-528); an
\* exception that gather raises lands in the handler of lines 530-532
Gathered(w) ==
    IF ~return_exceptions /\ Exceptions(w.batch.finished) # << >>
    THEN BatchRaise(w, Exceptions(w.batch.finished)[1].item.exception)
    ELSE BatchReturn([w EXCEPT !.batch = CollectFrom(@, gather(w.batch.finished), 1)])

RECURSIVE SeqFrom(_, _)
RECURSIVE SeqAfter(_, _)
\* the sequential loop from iteration i (lines 504-506), up to the next await
SeqFrom(w, i) ==
    IF i > Len(w.batch.requests) THEN BatchReturn(w)
    ELSE LET w1 == Enter([w EXCEPT !.batch.i = i], i, w.batch.requests[i])
         IN IF w1.task[i].pc = "done" THEN SeqAfter(w1, i) ELSE w1

\* the sequential loop once generate_image returned or raised for item i
\* (lines 507-518)
SeqAfter(w, i) ==
    LET tk == w.task[i]
        error_msg == "Generation " \o ToString(i) \o " failed: " \o Str(tk.raised)
    IN IF tk.raised = NullObj
       THEN SeqFrom([w EXCEPT !.batch.successful = @ + 1,
                              !.batch.results = Append(@, tk.response),
                              !.batch.errors = Append(@, Null)], i + 1)
       ELSE LET w1 == [w EXCEPT !.batch.failed = @ + 1,
                                !.batch.results = Append(@, NullObj),
                                !.batch.errors = Append(@, error_msg)]
            IN IF StopAfterFailure(w.batch.continue_on_error)
               THEN BatchRaise(w1, HTTPException(error_msg))
               ELSE SeqFrom(w1, i + 1)

\* what runs on, without an await in between, when a stretch of coroutine t
\* ends: nothing while t is suspended or was called by a client; the wrapper
\* of a parallel batch, whose outcome gather keeps; the sequential loop
Settle(w, t) ==
    IF w.batch.state # "running" \/ w.task[t].pc # "done" THEN w
    ELSE IF w.batch.parallel
         THEN [w EXCEPT !.batch.finished =
                  Append(@, [task |-> t, item |-> process_single_generation(w, t)])]
         ELSE SeqAfter(w, t)

RECURSIVE LaunchFrom(_, _)
\* the tasks of gather take their first stretch in the order of the list,
\* before any of them is resumed
LaunchFrom(w, i) ==
    IF i > Len(w.batch.requests) THEN w
    ELSE LaunchFrom(Settle(Enter(w, i, w.batch.requests[i]), i), i + 1)

\* a slip: the list may be empty (min_items omitted)
valid_batch_allows_empty(requests) ==
    /\ Len(requests) <= MAX_ITEMS
    /\ \A i \in DOMAIN requests : valid_request(requests[i])

\* the constraints of BatchGenerationRequest.requests (line 156)
valid_batch(requests) ==
    /\ Len(requests) >= MIN_ITEMS /\ Len(requests) <= MAX_ITEMS
    /\ \A i \in DOMAIN requests : valid_request(requests[i])

\* lines 458-463 and the branch taken, up to the first await
BatchEnter(w, requests, parallel, continue_on_error) ==
    LET w1 == [w EXCEPT !.batch = [NoBatch EXCEPT
                   !.state = "running", !.requests = requests,
                   !.parallel = parallel,
                   !.continue_on_error = continue_on_error]]
    IN IF parallel THEN LaunchFrom(w1, 1) ELSE SeqFrom(w1, 1)

\* POST /batch: the body is validated, then the handler runs
PostBatch(w, requests, parallel, continue_on_error) ==
    IF valid_batch(requests)
    THEN BatchEnter(w, requests, parallel, continue_on_error)
    ELSE [w EXCEPT !.batch = [NoBatch EXCEPT
              !.state = "rejected", !.requests = requests,
              !.parallel = parallel, !.continue_on_error = continue_on_error,
              !.raised = RequestValidationError]]

\* POST /: the body is validated, then generate_image runs
Post(w, t, raw) ==
    IF valid_request(raw)
    THEN Enter(w, t, raw)
    ELSE [w EXCEPT !.task[t] = [IdleTask EXCEPT
              !.pc = "rejected", !.request = raw,
              !.raised = RequestValidationError]]

\* ------------------------------------------------------- the cache endpoints
\* a slip: the size is taken after the cache was emptied
clear_cache_counts_after(w) ==
    LET cache_size == Cardinality(DOMAIN << >>)
    IN [w EXCEPT !.cache = << >>,
                 !.admin = [NoAdmin EXCEPT !.cleared = cache_size,
                                           !.found = w.cache,
                                           !.done_at_clear = Done(w)]]

\* clear_cache (lines 692-705)
clear_cache(w) ==
    LET cache_size == Cardinality(DOMAIN w.cache)
    IN [w EXCEPT !.cache = << >>,
                 !.admin = [NoAdmin EXCEPT !.cleared = cache_size,
                                           !.found = w.cache,
                                           !.done_at_clear = Done(w)]]

\* the entries that get_cache_stats counts as expired (line 717)
Expired(cache, t) ==
    {k \in DOMAIN cache : t - cache[k].timestamp >= CACHE_TTL}

\* get_cache_stats (lines 708-725)
get_cache_stats(w) ==
    LET total_cached == Cardinality(DOMAIN w.cache)
        expired == Cardinality(Expired(w.cache, w.now))
    IN [w EXCEPT !.admin.stats = [total_cached |-> total_cached,
                                  valid |-> total_cached - expired,
                                  expired |-> expired],
                 !.admin.done_at_stats = Done(w)]

\* ------------------------------------------------------------------ actions
\* a slip: the backoff holds the event loop (time.sleep), so that no other
\* coroutine is resumed while one sleeps
Resumable_unless_one_sleeps(w, t) ==
    \A s \in DOMAIN w.task : w.task[s].pc # "sleeping"

\* the event loop can resume coroutine t once what it awaits is in: every
\* wait of generate_image is an await (analyze_intent, generate,
\* asyncio.sleep), which suspends the calling coroutine alone
Resumable(w, t) == TRUE

\* a client posts a request to the single-request endpoint, once the answer
\* to its previous one is in
Submit(pool) ==
    \E t \in DOMAIN task, request \in pool :
        /\ batch.state = "none"
        /\ task[t].pc = "idle"
        /\ \A s \in DOMAIN task : s < t => task[s].pc \in {"done", "rejected"}
        /\ Becomes(Post(World, t, request))

\* one of several clients posts a request, whatever the others are waiting for
SubmitConcurrently(pool) ==
    \E t \in DOMAIN task, request \in pool :
        /\ batch.state = "none"
        /\ task[t].pc = "idle"
        /\ \A s \in DOMAIN task : s < t => task[s].pc # "idle"
        /\ Becomes(Post(World, t, request))

\* a client posts a batch
SubmitBatch ==
    \E requests \in PostedBatchInputs, parallel \in BOOLEAN, continue_on_error \in BOOLEAN :
        /\ batch.state = "none"
        /\ \A t \in DOMAIN task : task[t].pc = "idle"
        /\ Becomes(PostBatch(World, requests, parallel, continue_on_error))

\* analyze_intent answers or raises
ResolverReturns(outcomes) ==
    \E t \in DOMAIN task, outcome \in outcomes :
        /\ task[t].pc = "resolving"
        /\ Resumable(World, t)
        /\ \E after \in {Resolved(World, t, outcome)} : Becomes(Settle(after, t))

\* an upstream call succeeds; any_shape: its response may lack the image URL
UpstreamSucceedsFor(t, any_shape) ==
    /\ task[t].pc = "calling"
    /\ Resumable(World, t)
    /\ \E image_url \in IF any_shape THEN ImageUrls(task[t].generation)
                                       ELSE {NewImageUrl(task[t].generation)} :
           \E after \in {Succeeded(World, t, image_url)} : Becomes(Settle(after, t))

UpstreamSucceeds(any_shape) ==
    \E t \in DOMAIN task : UpstreamSucceedsFor(t, any_shape)

UpstreamFails(errors) ==
    \E t \in DOMAIN task, message \in errors :
        /\ task[t].pc = "calling"
        /\ Resumable(World, t)
        /\ \E after \in {Failed(World, t, message)} : Becomes(Settle(after, t))

WakeUp ==
    \E t \in DOMAIN task :
        /\ task[t].pc = "sleeping"
        /\ \E after \in {Woke(World, t)} : Becomes(Settle(after, t))

\* the await on gather of the parallel batch returns
GatherReturns ==
    /\ batch.state = "running"
    /\ batch.parallel
    /\ gather_ends(batch)
    /\ Becomes(Gathered(World))

\* DELETE /cache
ClearCache == Becomes(clear_cache(World))

\* GET /cache/stats
CacheStats == Becomes(get_cache_stats(World))

\* the instants the clock moves to while no coroutine runs: the last second
\* of validity and the expiry of a cache entry (a sleep moves the clock too)
TimeTargets ==
    {generation_cache[k].timestamp + CACHE_TTL - 1 : k \in DOMAIN generation_cache}
    \cup {generation_cache[k].timestamp + CACHE_TTL : k \in DOMAIN generation_cache}

Tick ==
    \E n \in TimeTargets :
        /\ n > now
        /\ now' = n
        /\ UNCHANGED <<generation_cache, generations, task, batch, admin>>

\* ----------------------------------------------------------- specifications
InitWith(n) ==
    /\ now = 0
    /\ generation_cache = << >>
    /\ generations = << >>
    /\ task = [t \in 1..n |-> IdleTask]
    /\ batch = NoBatch
    /\ admin = NoAdmin

\* a client that posts two requests to the single-request endpoint
Init == InitWith(2)

Next ==
    \/ Submit(ClientPool)
    \/ ResolverReturns(ResolverOutcomes)
    \/ UpstreamSucceeds(TRUE)
    \/ UpstreamFails(OneError)
    \/ WakeUp
    \/ Tick

Spec == Init /\ [][Next]_vars

\* one request with any retry budget the validator admits
InitRetry == InitWith(1)

NextRetry ==
    \/ Submit(RetryPool)
    \/ ResolverReturns(ResolverOutcomes)
    \/ UpstreamSucceeds(TRUE)
    \/ UpstreamFails(UpstreamErrors)
    \/ WakeUp
    \/ Tick

SpecRetry == InitRetry /\ [][NextRetry]_vars

\* requests in ai mode against a resolver that answers in any shape
InitResolver == InitWith(2)

NextResolver ==
    \/ Submit(ClientPool)
    \/ ResolverReturns(ResolverShapes)
    \/ UpstreamSucceeds(TRUE)
    \/ UpstreamFails(OneError)
    \/ WakeUp

SpecResolver == InitResolver /\ [][NextResolver]_vars

\* two requests that differ in at most two fields, upstream always up
InitKey == InitWith(2)

NextKey ==
    \/ Submit(KeyPool)
    \/ ResolverReturns({"ok"})
    \/ UpstreamSucceeds(FALSE)

SpecKey == InitKey /\ [][NextKey]_vars

\* a client that caches up to five results, and the cache endpoints
InitCache == InitWith(5)

NextCache ==
    \/ Submit({CacheRequests[t] : t \in {t \in DOMAIN task : t = Cardinality(Done(World)) + 1}})
    \/ UpstreamSucceeds(FALSE)
    \/ (Cardinality(Done(World)) <= MaxAged /\ Tick)
    \/ ClearCache
    \/ CacheStats

SpecCache == InitCache /\ [][NextCache]_vars

\* a client that posts, one after the other, requests of two contents that
\* use the cache, while the clock moves and the cache endpoints are called
InitEvict == InitWith(MaxAged + 1)

NextEvict ==
    \/ Submit({CacheRequests[1], CacheRequests[2]})
    \/ UpstreamSucceeds(FALSE)
    \/ Tick
    \/ ClearCache
    \/ CacheStats

SpecEvict == InitEvict /\ [][NextEvict]_vars

\* several clients that post the same request, which uses the cache, at any
\* time, while the clock moves and the cache is cleared
InitRace == InitWith(MaxBatch)

NextRace ==
    \/ SubmitConcurrently({CacheRequests[1]})
    \/ UpstreamSucceeds(FALSE)
    \/ Tick
    \/ ClearCache

SpecRace == InitRace /\ [][NextRace]_vars

\* a client that posts two requests that use the cache, the second perhaps
\* for another user or project or with another budget
InitHit == InitWith(2)

NextHit ==
    \/ Submit(HitPool)
    \/ ResolverReturns(ResolverShapes)
    \/ UpstreamSucceeds(TRUE)
    \/ UpstreamFails(OneError)
    \/ WakeUp

SpecHit == InitHit /\ [][NextHit]_vars

\* a client that posts two bodies, valid or not
InitPosted == InitWith(2)

NextPosted ==
    \/ Submit(PostedRequests)
    \/ ResolverReturns({"ok"})
    \/ UpstreamSucceeds(FALSE)
    \/ UpstreamFails(OneError)
    \/ WakeUp

SpecPosted == InitPosted /\ [][NextPosted]_vars

\* one batch
InitBatch == InitWith(MaxBatch)

NextBatch ==
    \/ SubmitBatch
    \/ ResolverReturns({"error"})
    \/ UpstreamSucceeds(FALSE)
    \/ UpstreamFails(OneError)
    \/ WakeUp
    \/ GatherReturns

SpecBatch == InitBatch /\ [][NextBatch]_vars

\* coroutine t is suspended in an await: on the resolver, on the upstream
\* call or in asyncio.sleep
Awaiting(t) ==
    t \in DOMAIN task /\ task[t].pc \in {"resolving", "calling", "sleeping"}

\* the await of coroutine t returned and t ran its next stretch
Resumed(t) == Awaiting(t) /\ task'[t] # task[t]

\* the call coroutine t awaits returns: weak fairness of Resumed(t), written
\* out with Awaiting(t) for ENABLED <<Resumed(t)>>_vars (a suspended
\* coroutine always has a step: the call answers or raises, the sleep ends)
AwaitReturns(t) == []<>(~Awaiting(t)) \/ []<><<Resumed(t)>>_vars

\* every awaited call returns, and the event loop resumes gather when its
\* tasks are done
CallsReturn ==
    /\ \A t \in 1..MaxBatch : AwaitReturns(t)
    /\ WF_vars(GatherReturns)

\* the requests of SpecResolver, every awaited call returning
SpecResolverFair == SpecResolver /\ CallsReturn

\* the batch of SpecBatch, every awaited call returning
SpecBatchFair == SpecBatch /\ CallsReturn

\* ------------------------------------------------------------------- claims
\* the instant generate_image finished a request it answered
EndTime(tk) == tk.start_time + tk.response.generation_time

\* the coroutine answered with a result it generated itself
Generated(tk) ==
    tk.pc = "done" /\ tk.response # NullObj /\ ~tk.response.cached

\* C1: a request with use_cache=true is posted twice, the second time after
\* the first completed successfully and less than CACHE_TTL later: the first
\* response has cached=false, the second has cached=true, and both carry the
\* same image_url.
C1_SecondSubmissionIsCacheHit ==
    LET first == task[1]
        second == task[2]
    IN (/\ first.pc = "done" /\ second.pc = "done"
        /\ 1 \in second.done_before
        /\ second.request = first.request
        /\ first.request.use_cache
        /\ first.response # NullObj
        /\ second.start_time - EndTime(first) < CACHE_TTL)
       => /\ first.response.cached = FALSE
          /\ second.response # NullObj
          /\ second.response.cached = TRUE
          /\ second.response.image_url = first.response.image_url

\* C1 witness: the second submission comes in the last second of validity of
\* the entry that the first one, after a retry, wrote; it is answered from it
C1_Witness ==
    /\ task[1].pc = "done" /\ task[2].pc = "done"
    /\ task[1].response # NullObj
    /\ task[1].request.use_cache
    /\ task[1].retry_count = 1
    /\ task[2].request = task[1].request
    /\ task[2].start_time = EndTime(task[1]) + CACHE_TTL - 1
    /\ task[2].response # NullObj
    /\ task[2].response.cached

\* C2: when every upstream call fails, generate_image makes exactly
\* max_retries + 1 upstream calls and then fails (never before, and no call
\* follows), and the error it raises carries the message of the error of the
\* last call; it returns no response.
C2_FailsAfterBudgetWithLastError ==
    LET tk == task[1]
        budget == tk.request.max_retries + 1
    IN tk.pc # "idle" =>
        /\ tk.calls <= budget
        /\ (tk.raised # NullObj) <=> (Len(tk.errlog) = budget)
        /\ tk.raised # NullObj =>
              /\ tk.pc = "done"
              /\ tk.calls = budget
              /\ tk.response = NullObj
              /\ tk.raised.detail = "Generation failed: " \o tk.errlog[budget]
              /\ generations[tk.generation].error_message = tk.errlog[budget]

\* C2 witness: ai mode, max_retries = 5, six failed calls, the last error
\* differing from the one before
C2_Witness ==
    /\ task[1].pc = "done"
    /\ task[1].raised # NullObj
    /\ task[1].request.mode = "ai"
    /\ task[1].request.max_retries = MAX_RETRIES_LIMIT
    /\ task[1].calls = MAX_RETRIES_LIMIT + 1
    /\ task[1].errlog[MAX_RETRIES_LIMIT + 1] # task[1].errlog[MAX_RETRIES_LIMIT]

\* C3 as stated: after k failed calls and a successful one, the retry_count of
\* the response is k + 1, the number of upstream calls made.
C3_RetryCountIsCallsMade ==
    Generated(task[1]) => task[1].response.retry_count = task[1].calls

\* C3 as amended: after k <= max_retries failed calls and a successful one the
\* request succeeds, k + 1 upstream calls were made, and the retry_count of
\* the response is one less than the number of upstream calls made.
C3_RetryCountIsCallsMadeLessOne ==
    LET tk == task[1]
    IN /\ (tk.pc = "done" /\ Len(tk.errlog) < tk.calls) => Generated(tk)
       /\ Generated(tk) =>
             /\ Len(tk.errlog) <= tk.request.max_retries
             /\ tk.calls = Len(tk.errlog) + 1
             /\ tk.response.retry_count = tk.calls - 1

\* C3 witness: five failed calls, the sixth succeeds
C3_Witness ==
    /\ Generated(task[1])
    /\ task[1].request.max_retries = MAX_RETRIES_LIMIT
    /\ Len(task[1].errlog) = MAX_RETRIES_LIMIT
    /\ task[1].calls = MAX_RETRIES_LIMIT + 1
    /\ task[1].response.retry_count = MAX_RETRIES_LIMIT

\* C4: after k failed calls and a successful one the response has status
\* completed and retry_count = k, the number of failed attempts; 0 when the
\* first call succeeds.  The record is completed too.
C4_RetryCountIsFailedAttempts ==
    LET tk == task[1]
    IN Generated(tk) =>
         /\ tk.response.status = "completed"
         /\ tk.response.retry_count = Len(tk.errlog)
         /\ generations[tk.response.id].status = "completed"

\* C4 witness (scenario B): max_retries = 2, two failed calls, then success
C4_Witness ==
    /\ Generated(task[1])
    /\ task[1].request.max_retries = 2
    /\ Len(task[1].errlog) = 2
    /\ task[1].response.retry_count = 2
    /\ task[1].response.status = "completed"

\* the batch handler is over: it returned a response or raised
BatchEnded == batch.state \in {"returned", "raised"}

\* the body of the batch passed validation and the handler was called
BatchCalled == batch.state \in {"running", "returned", "raised"}

\* the indices of the requests of the batch
Items == 1..Len(batch.requests)

\* the requests of the batch that generate_image was never called for
NotAttempted == {i \in Items : task[i].pc = "idle"}

\* what the batch records as the error of item i when generate_image raised
ItemError(i) ==
    IF batch.parallel /\ ~batch.continue_on_error
    THEN Str(task[i].raised)
    ELSE "Generation " \o ToString(i) \o " failed: " \o Str(task[i].raised)

\* C5: every batch, in either mode and with either value of continue_on_error,
\* ends with an outcome that has one entry per request and whose counts
\* satisfy successful + failed + not_attempted = total; in sequential mode
\* with continue_on_error=false the outcome reports the failed item as failed
\* and the later ones as not attempted.
C5_EveryBatchEndsWithFullOutcome ==
    BatchEnded =>
        /\ batch.response # NullObj
        /\ Len(batch.response.results) = Len(batch.requests)
        /\ Len(batch.response.errors) = Len(batch.requests)
        /\ batch.response.successful + batch.response.failed
               + Cardinality(NotAttempted) = batch.response.total
        /\ \A i \in Items :
              task[i].raised # NullObj => batch.response.errors[i] # Null

\* C6: in a parallel batch entry i of results and errors is the outcome of
\* request i (the response generate_image gave for it, whose record holds its
\* prompt, or the error it raised), in whatever order the items finished.
C6_ParallelEntriesFollowRequestOrder ==
    (batch.state = "returned" /\ batch.parallel) =>
        \A i \in Items :
            LET result == batch.response.results[i]
                error == batch.response.errors[i]
            IN /\ task[i].request = batch.requests[i]
               /\ task[i].raised = NullObj =>
                     /\ error = Null
                     /\ result = task[i].response
                     /\ result.id = task[i].generation
                     /\ generations[result.id].prompt = batch.requests[i].prompt
               /\ task[i].raised # NullObj =>
                     /\ result = NullObj
                     /\ error = ItemError(i)

\* C6 witness: two different requests; the second finished first, while the
\* first was in backoff after a failed call, and the first then succeeded
C6_Witness ==
    /\ batch.state = "returned" /\ batch.parallel
    /\ Len(batch.requests) >= 2
    /\ batch.requests[1] # batch.requests[2]
    /\ batch.finished[1].task = 2
    /\ task[1].slept > 0
    /\ task[1].response # NullObj
    /\ batch.response.results[1] = task[1].response

\* C7: in a parallel batch, whatever continue_on_error is, every item is
\* launched and runs to its own terminal outcome (a completed record and a
\* response, or a failed record and an error after max_retries + 1 calls), and
\* the batch ends only then, and with a response.
C7_ParallelRunsEveryItemToItsEnd ==
    (BatchCalled /\ batch.parallel) =>
        /\ \A i \in Items : task[i].pc # "idle"
        /\ BatchEnded =>
              /\ batch.state = "returned"
              /\ \A i \in Items :
                    /\ task[i].pc = "done"
                    /\ task[i].raised = NullObj =>
                          /\ task[i].response # NullObj
                          /\ generations[task[i].generation].status = "completed"
                    /\ task[i].raised # NullObj =>
                          /\ task[i].calls = task[i].request.max_retries + 1
                          /\ generations[task[i].generation].status = "failed"

\* C7 witness: continue_on_error=false, the first item to finish failed,
\* another item was still running then, made a further upstream call after
\* a backoff and succeeded
C7_Witness ==
    /\ batch.state = "returned" /\ batch.parallel
    /\ ~batch.continue_on_error
    /\ task[batch.finished[1].task].raised # NullObj
    /\ \E i \in Items :
          /\ task[i].raised = NullObj
          /\ task[i].calls = 2
          /\ batch.response.results[i] # NullObj

\* C8: with continue_on_error=true, in either mode, the batch never raises;
\* when it returns every request was attempted and resolved, entry i holds an
\* error (naming the item) exactly when generate_image raised for request i
\* and a result exactly when it answered.
C8_ContinueOnErrorNeverFailsTheBatch ==
    (BatchCalled /\ batch.continue_on_error) =>
        /\ batch.state # "raised"
        /\ batch.state = "returned" =>
              \A i \in Items :
                  /\ task[i].pc = "done"
                  /\ task[i].request = batch.requests[i]
                  /\ (batch.response.errors[i] # Null) <=> (task[i].raised # NullObj)
                  /\ (batch.response.results[i] # NullObj) <=> (task[i].response # NullObj)
                  /\ task[i].raised # NullObj =>
                        batch.response.errors[i] = ItemError(i)
                  /\ task[i].response # NullObj =>
                        batch.response.results[i] = task[i].response

\* C8 witness (scenario C): three requests in parallel, only the second
\* fails: total 3, successful 2, failed 1, the failure at the second entry
C8_Witness ==
    /\ batch.state = "returned"
    /\ batch.parallel /\ batch.continue_on_error
    /\ Len(batch.requests) = 3
    /\ task[1].raised = NullObj /\ task[3].raised = NullObj
    /\ task[2].raised # NullObj
    /\ batch.response.total = 3
    /\ batch.response.successful = 2
    /\ batch.response.failed = 1
    /\ batch.response.errors[2] # Null
    /\ batch.response.results[2] = NullObj

\* C9: in sequential mode generate_image is called for an item only when it
\* has finished for every earlier item, so at most one item is under way and
\* an item not yet reached has read no cache, created no record and made no
\* resolver or upstream call; with continue_on_error=false no item after a
\* failed one is ever started.
C9_SequentialOneAtATimeAndStops ==
    (BatchCalled /\ ~batch.parallel) =>
        /\ \A i \in Items :
              task[i].pc # "idle" => \A j \in 1..(i - 1) : j \in task[i].done_before
        /\ Cardinality({i \in Items : task[i].pc \notin {"idle", "done"}}) <= 1
        /\ Cardinality({i \in Items : task[i].generation # NullNum}) = Len(generations)
        /\ \A i \in NotAttempted :
              task[i].calls = 0 /\ task[i].resolver_calls = 0
        /\ ~batch.continue_on_error =>
              \A j \in Items :
                  task[j].raised # NullObj =>
                      \A i \in Items : i > j => task[i].pc = "idle"

\* C9 witness: three requests, sequential, continue_on_error=false; the first
\* succeeded, the second failed, the third was never started
C9_Witness ==
    /\ BatchEnded
    /\ ~batch.parallel /\ ~batch.continue_on_error
    /\ Len(batch.requests) = 3
    /\ task[1].response # NullObj
    /\ task[2].raised # NullObj
    /\ task[3].pc = "idle"

\* C10: in the response of a batch total is the number of requests,
\* successful the number of entries with a result, failed the number of
\* entries with an error, every entry has exactly one of the two, and
\* successful + failed = total.
C10_CountsAgreeWithEntries ==
    batch.state = "returned" =>
        LET r == batch.response
        IN /\ r.total = Len(batch.requests)
           /\ Len(r.results) = r.total /\ Len(r.errors) = r.total
           /\ r.successful = Cardinality({i \in 1..Len(r.results) : r.results[i] # NullObj})
           /\ r.failed = Cardinality({i \in 1..Len(r.errors) : r.errors[i] # Null})
           /\ \A i \in 1..r.total : (r.results[i] # NullObj) # (r.errors[i] # Null)
           /\ r.successful + r.failed = r.total

\* C10 witness: a parallel batch with continue_on_error=false in which a task
\* raised and another answered
C10_Witness ==
    /\ batch.state = "returned"
    /\ batch.parallel /\ ~batch.continue_on_error
    /\ Exceptions(batch.finished) # << >>
    /\ batch.response.successful >= 1
    /\ batch.response.failed >= 1

\* C11: an entry written at time T (by a first request that completed) is
\* returned to a read of its key at T + d for every d < CACHE_TTL and is
\* absent for every d >= CACHE_TTL, d = CACHE_TTL included: the second request
\* is then a miss and generates anew.  Nothing clears or overwrites the entry
\* between the write and the read.
C11_EntryValidStrictlyBelowTTL ==
    LET first == task[1]
        second == task[2]
    IN (/\ Generated(first) /\ first.request.use_cache
        /\ second.pc # "idle" /\ second.request.use_cache
        /\ second.cache_key = first.cache_key)
       => LET d == second.start_time - EndTime(first)
          IN /\ d >= 0
             /\ d < CACHE_TTL =>
                   /\ second.pc = "done"
                   /\ second.generation = NullNum
                   /\ second.response = [first.response EXCEPT !.cached = TRUE]
             /\ d >= CACHE_TTL =>
                   /\ second.generation # NullNum
                   /\ second.generation # first.generation
                   /\ second.response # NullObj => ~second.response.cached

\* C11 witness: the read comes exactly CACHE_TTL after the write and misses
C11_Witness ==
    /\ Generated(task[1]) /\ task[1].request.use_cache
    /\ task[2].pc # "idle" /\ task[2].request.use_cache
    /\ task[2].cache_key = task[1].cache_key
    /\ task[2].start_time - EndTime(task[1]) = CACHE_TTL
    /\ task[2].generation # NullNum

\* C12: in ai mode, when the resolver raised or gave a malformed answer, the
\* request goes on to the upstream call with its own prompt and the fixed
\* default parameters, the resolver's failure uses none of the retry budget
\* (every error of the retry loop is the error of an upstream call), and the
\* request fails only when max_retries + 1 upstream calls failed; when its
\* last upstream call succeeded it ends completed.
C12_ResolverFailureFallsBackToDefaults ==
    \A t \in DOMAIN task :
        LET tk == task[t]
        IN tk.shape \in ResolverShapes \ {"ok"} =>
              /\ tk.params = DefaultParams(tk.request)
              /\ tk.calls >= 1
              /\ Len(tk.errlog) <= tk.calls
              /\ tk.raised # NullObj =>
                    Len(tk.errlog) = tk.request.max_retries + 1
              /\ (tk.pc = "done" /\ Len(tk.errlog) < tk.calls) =>
                    /\ tk.response # NullObj
                    /\ generations[tk.generation].status = "completed"

\* C13: the failure that generate_image returns to the caller once the retry
\* budget is used up carries a failure status, the number of retries (or
\* attempts) that were made, and the message of the last underlying error.
C13_FailureCarriesStatusRetriesAndLastError ==
    LET tk == task[1]
    IN tk.raised # NullObj =>
          /\ tk.raised.status_code = 500
          /\ generations[tk.generation].status = "failed"
          /\ tk.raised.detail = "Generation failed: " \o tk.errlog[Len(tk.errlog)]
          /\ "retry_count" \in DOMAIN tk.raised
          /\ tk.raised.retry_count \in {tk.retry_count, tk.calls}

\* the two requests agree on the eight fields of the key
SameContent(r1, r2) == \A f \in KeyFields : r1[f] = r2[f]

\* C14: two requests get the same cache key exactly when they agree on
\* prompt, mode and the six parameters; requests that differ only in
\* use_cache, max_retries, user_id or project_id share the key and the one
\* cache entry (the second is answered from the entry of the first), and a
\* difference in any of the eight fields gives a second entry.
C14_KeyIsTheEightContentFields ==
    LET first == task[1]
        second == task[2]
    IN second.pc # "idle" =>
          /\ (second.cache_key = first.cache_key)
                 <=> SameContent(first.request, second.request)
          /\ (first.request.use_cache /\ second.request.use_cache) =>
                IF SameContent(first.request, second.request)
                THEN /\ second.response # NullObj
                     /\ second.response.cached
                     /\ second.response.id = first.generation
                     /\ DOMAIN generation_cache = {first.cache_key}
                ELSE /\ second.generation # NullNum
                     /\ second.pc = "done" =>
                           DOMAIN generation_cache =
                               {first.cache_key, second.cache_key}

\* C14 witness: the second request has another retry budget (or user or
\* project) than the first and is answered from the entry of the first
C14_Witness ==
    /\ task[2].pc = "done"
    /\ task[2].request # task[1].request
    /\ task[2].response # NullObj
    /\ task[2].response.cached
    /\ task[2].response.id = task[1].generation

\* C15: the quality score of a generated result is
\* 0.5 + min(0.05 * n, 0.3) + (0.2 if the result has an image URL), clamped to
\* [0, 1], with n the number of the six parameters that are not null; so it
\* lies in [0, 1], is 0.5 for no parameter and no URL and at least 0.9 for
\* six parameters and a URL.  In hundredths.
C15_QualityScoreFormula ==
    LET tk == task[1]
    IN Generated(tk) =>
          LET r == tk.response
              n == Cardinality({f \in ParamFields : r.parameters[f] # Null})
              bonus == IF 5 * n < 30 THEN 5 * n ELSE 30
              score == 50 + bonus + (IF Truthy(r.image_url) THEN 20 ELSE 0)
          IN /\ r.quality_score = (IF score < 100 THEN score ELSE 100)
             /\ r.quality_score \in 0..100
             /\ generations[r.id].quality_score = r.quality_score

\* C16: clear_cache returns the number of entries the cache held when it was
\* called and leaves none of them, valid or expired; a stats query after it,
\* with no generation completing in between, reports total 0, valid 0 and
\* expired 0.
C16_ClearRemovesAllAndCounts ==
    admin.cleared # NullNum =>
        /\ admin.cleared = Cardinality(DOMAIN admin.found)
        /\ Done(World) = admin.done_at_clear => DOMAIN generation_cache = {}
        /\ (admin.stats # NullObj /\ admin.done_at_stats = admin.done_at_clear) =>
              admin.stats = [total_cached |-> 0, valid |-> 0, expired |-> 0]

\* C16 witness (scenario E): five requests were cached, the oldest entry had
\* expired and the newest had not when clear_cache ran; it returned 5 and the
\* stats query that followed reported an empty cache
C16_Witness ==
    /\ admin.cleared = 5
    /\ \E old, new \in DOMAIN admin.found :
          /\ admin.found[new].timestamp - admin.found[old].timestamp >= CACHE_TTL
          /\ now - admin.found[new].timestamp < CACHE_TTL
    /\ admin.stats # NullObj
    /\ admin.stats.total_cached = 0
    /\ admin.done_at_stats = admin.done_at_clear

\* C17 as stated: a batch posted with an empty request list is not an error;
\* it yields total 0, successful 0, failed 0 and empty outcome sequences.
C17_EmptyBatchYieldsZeroes ==
    (batch.state # "none" /\ batch.requests = << >>) =>
        /\ batch.state = "returned"
        /\ batch.response = [total |-> 0, successful |-> 0, failed |-> 0,
                             results |-> << >>, errors |-> << >>]

\* C17 as amended: a batch posted with an empty request list is rejected by
\* the validation of the request body (min_items=1) with status 422: the
\* handler does not run, there is no outcome, and no cache access, record
\* creation or upstream call.
C17_EmptyBatchIsRejected ==
    (batch.state # "none" /\ batch.requests = << >>) =>
        /\ batch.state = "rejected"
        /\ batch.response = NullObj
        /\ batch.raised.status_code = 422
        /\ generation_cache = << >>
        /\ generations = << >>
        /\ \A t \in DOMAIN task : task[t] = IdleTask

\* C17 witness: the empty list was posted and answered
C17_Witness ==
    /\ batch.requests = << >>
    /\ batch.state = "rejected"
    /\ batch.raised = RequestValidationError

\* a body that fails validation, as the claim lists the failures; an empty
\* string counts as no value for a parameter
InvalidBody(r) ==
    \/ r.mode \notin {"ai", "manual"}
    \/ \E f \in ParamFields : Truthy(r[f]) /\ r[f] \notin Accepted[f]
    \/ Len(r.prompt) < 3 \/ Len(r.prompt) > 2000
    \/ r.max_retries < 0 \/ r.max_retries > 5

\* C18: a request that fails validation (mode, a parameter value, the length
\* of the prompt, max_retries) is rejected in the step that posts it, with no
\* cache access, record creation, resolver call or upstream call: the cache
\* and the record store are what they were; and no later step retries it.
C18_InvalidBodyIsRejectedUntouched ==
    [][\A t \in DOMAIN task :
          /\ (task[t].pc = "idle" /\ task'[t].pc # "idle"
                  /\ InvalidBody(task'[t].request)) =>
                /\ task'[t].pc = "rejected"
                /\ task'[t].raised.status_code = 422
                /\ task'[t].response = NullObj
                /\ generation_cache' = generation_cache
                /\ generations' = generations
                /\ task'[t].generation = NullNum
                /\ task'[t].calls = 0 /\ task'[t].resolver_calls = 0
                /\ task'[t].slept = 0
          /\ task[t].pc = "rejected" => task'[t] = task[t]]_vars

\* C18 witness: a first request was generated and cached; the second body,
\* with max_retries one above the limit, was rejected and left the record
\* and the cache entry of the first as they were
C18_Witness ==
    /\ Generated(task[1])
    /\ task[2].pc = "rejected"
    /\ task[2].request.max_retries = MAX_RETRIES_LIMIT + 1
    /\ Len(generations) = 1
    /\ DOMAIN generation_cache = {task[1].cache_key}

\* C19: for each of the six parameters the values that the enumeration query
\* lists are exactly the values that validation accepts: a request with a
\* listed value (and nothing else wrong) is accepted, and a request with a
\* non-empty value that is not listed is rejected.
C19_ListedValuesAreTheAcceptedOnes ==
    \A t \in DOMAIN task :
        task[t].pc # "idle" =>
            \A f \in ParamFields :
                LET r == task[t].request
                    v == r[f]
                IN Truthy(v) =>
                      /\ v \notin get_parameter_options[f] =>
                            task[t].pc = "rejected"
                      /\ (v \in get_parameter_options[f]
                             /\ ~InvalidBody([r EXCEPT ![f] = Null])) =>
                            task[t].pc # "rejected"

\* the sequence s begins with the sequence p
StartsWith(s, p) == Len(s) >= Len(p) /\ SubSeq(s, 1, Len(p)) = p

\* C20: every record is first persisted with status pending, is persisted as
\* processing before the first upstream call of its request, and only then
\* reaches a terminal status: the statuses it is persisted with follow
\* pending, processing, then completed or failed, and nothing else.
C20_RecordsGoPendingProcessingTerminal ==
    /\ \A i \in 1..Len(generations) :
          /\ generations[i].committed[1] = "pending"
          /\ \/ StartsWith(<<"pending", "processing", "completed">>,
                           generations[i].committed)
             \/ StartsWith(<<"pending", "processing", "failed">>,
                           generations[i].committed)
    /\ \A t \in DOMAIN task :
          (task[t].generation # NullNum /\ task[t].calls >= 1) =>
              StartsWith(generations[task[t].generation].committed,
                         <<"pending", "processing">>)

\* the terminal statuses of a record
Terminal == {"completed", "failed"}

\* C21: once a record was persisted as completed or failed, nothing changes
\* it: no step of any request, cache hit, batch sibling or exception handler
\* alters a field of a record whose status is terminal, and no record is ever
\* persisted with a second terminal status (completed then failed, or failed
\* then completed).
C21_TerminalRecordsAreImmutable ==
    /\ [](\A i \in 1..Len(generations) :
            Cardinality({n \in DOMAIN generations[i].committed :
                            generations[i].committed[n] \in Terminal}) <= 1)
    /\ [][\A i \in 1..Len(generations) :
            generations[i].status \in Terminal =>
                generations'[i] = generations[i]]_vars

\* C22: in every reachable state a completed record has a result reference
\* and a quality score, and a failed record has its error detail, whatever
\* the upstream service answered, a success without an image URL included.
C22_TerminalRecordsCarryTheirFields ==
    \A i \in 1..Len(generations) :
        LET generation == generations[i]
        IN /\ generation.status = "completed" =>
                 /\ generation.result_url # Null
                 /\ generation.quality_score # NullNum
           /\ generation.status = "failed" =>
                 generation.error_message # Null

\* the number of terminal statuses the record was persisted with
TerminalCommits(generation) ==
    Cardinality({n \in DOMAIN generation.committed :
                    generation.committed[n] \in Terminal})

\* the request of coroutine t created a record
CreatedRecord(t) == t \in DOMAIN task /\ task[t].generation # NullNum

\* generate_image returned to its caller, the record of the request terminal
Returned(t) ==
    /\ CreatedRecord(t)
    /\ task[t].pc = "done"
    /\ generations[task[t].generation].status \in Terminal

\* every request that created a record returns with its record terminal
EveryRequestReturns == \A t \in 1..MaxBatch : CreatedRecord(t) ~> Returned(t)

\* every batch that was called returns or raises
EveryBatchReturns == (batch.state = "running") ~> BatchEnded

\* C23: provided every resolver call, upstream call and backoff sleep
\* returns, every request that creates a record returns to its caller with
\* the record in a terminal status, having persisted exactly one terminal
\* status for it and made at most max_retries + 1 upstream calls; no record
\* stays in processing forever; a batch of such requests returns.
C23_EveryRequestEndsInOneTerminalStatus ==
    /\ EveryRequestReturns
    /\ EveryBatchReturns
    /\ [](\A t \in DOMAIN task :
            task[t].generation # NullNum =>
                /\ task[t].calls <= task[t].request.max_retries + 1
                /\ TerminalCommits(generations[task[t].generation]) <= 1
                /\ task[t].pc = "done" =>
                      TerminalCommits(generations[task[t].generation]) = 1)

\* C24: within one request the wait before attempt a + 1 is exactly 2^a
\* seconds and is entered only when attempt a failed with a < max_retries;
\* attempt 0 follows no wait, no wait follows a successful attempt or the
\* last failed one, so after k failed attempts the request has slept 2^k - 1
\* seconds when its next attempt starts, and 2^max_retries - 1 when all its
\* max_retries + 1 attempts failed; a successful attempt is followed by no
\* further upstream call and no wait.
C24_BackoffIsTwoToTheAttempt ==
    /\ [](LET tk == task[1]
              failures == Len(tk.errlog)
          IN tk.pc \in {"calling", "sleeping", "done"} =>
               /\ tk.slept = 2 ^ tk.attempt - 1
               /\ tk.pc = "calling" =>
                     /\ tk.attempt = failures /\ tk.wake = NullNum
                     /\ tk.calls <= tk.attempt + 1
               /\ tk.pc = "sleeping" =>
                     /\ failures = tk.attempt + 1
                     /\ tk.attempt < tk.request.max_retries
                     /\ tk.wake - now <= 2 ^ tk.attempt
               /\ (tk.pc = "done" /\ tk.generation # NullNum) =>
                     /\ tk.wake = NullNum
                     /\ failures = tk.request.max_retries + 1 =>
                           /\ tk.raised # NullObj
                           /\ tk.slept = 2 ^ tk.request.max_retries - 1
                     /\ failures <= tk.request.max_retries =>
                           tk.slept = 2 ^ failures - 1
                     /\ tk.response # NullObj =>
                           /\ tk.slept = 2 ^ failures - 1
                           /\ tk.calls = failures + 1)
    /\ [][/\ task'[1].pc = "sleeping" =>
                   \/ task'[1] = task[1]
                   \/ /\ task[1].pc \in {"resolving", "calling", "sleeping"}
                      /\ Len(task'[1].errlog) = Len(task[1].errlog) + 1
                      /\ task'[1].wake = now' + 2 ^ task'[1].attempt
          /\ (task[1].pc = "sleeping" /\ task'[1] # task[1]) =>
                   /\ now' >= task[1].wake
                   /\ task'[1].attempt = task[1].attempt + 1
                   /\ task'[1].slept = task[1].slept + 2 ^ task[1].attempt
          /\ task[1].pc = "done" =>
                   /\ task'[1].calls = task[1].calls
                   /\ task'[1].slept = task[1].slept]_vars

\* C24 witness: max_retries = 5 and six failed attempts: waits of 1, 2, 4, 8
\* and 16 seconds, 31 in all, and none after the last failure
C24_Witness ==
    /\ task[1].pc = "done"
    /\ task[1].raised # NullObj
    /\ task[1].request.max_retries = MAX_RETRIES_LIMIT
    /\ task[1].slept = 31
    /\ now = task[1].start_time + 31

\* the keys of the entries that the step removes from the cache
Removed == DOMAIN generation_cache \ DOMAIN generation_cache'

\* the step is the first stretch of generate_image for coroutine t
Called(t) == task[t].pc = "idle" /\ task'[t].pc \notin {"idle", "rejected"}

\* the entry of key k is as old as the TTL or older
Stale(k) == now - generation_cache[k].timestamp >= CACHE_TTL

\* C25: an entry leaves the cache only when a request that uses the cache
\* reads its own key and finds the entry expired (exactly that entry goes and
\* the request is a miss), or through clear_cache; a read of an unexpired
\* entry leaves the cache as it is, a write removes nothing, and the stats
\* query leaves the cache as it is and counts the expired entries that are
\* still in it.
C25_EntriesLeaveOnlyByOwnExpiredReadOrClear ==
    [][/\ Removed # {} =>
             \/ /\ task' = task
                /\ generation_cache' = << >>
                /\ admin'.cleared = Cardinality(DOMAIN generation_cache)
             \/ \E t \in DOMAIN task :
                   /\ Called(t)
                   /\ task'[t].request.use_cache
                   /\ Removed = {task'[t].cache_key}
                   /\ Stale(task'[t].cache_key)
                   /\ task'[t].generation # NullNum
                   /\ task'[t].response = NullObj
                   /\ \A k \in DOMAIN generation_cache' :
                         generation_cache'[k] = generation_cache[k]
       /\ \A t \in DOMAIN task :
             (/\ Called(t)
              /\ task'[t].cache_key \in DOMAIN generation_cache
              /\ ~Stale(task'[t].cache_key)) =>
                 /\ generation_cache' = generation_cache
                 /\ task'[t].response # NullObj /\ task'[t].response.cached
       /\ (admin'.stats # NullObj /\ admin'.stats # admin.stats) =>
             /\ generation_cache' = generation_cache
             /\ admin'.stats.total_cached = Cardinality(DOMAIN generation_cache)
             /\ admin'.stats.expired =
                    Cardinality({k \in DOMAIN generation_cache : Stale(k)})
             /\ admin'.stats.valid =
                    Cardinality({k \in DOMAIN generation_cache : ~Stale(k)})]_vars

\* C25 witness: two entries had expired; the third request read the key of
\* one of them, which was removed, and generated anew; the other expired
\* entry is still in the cache and the stats query since counted it
C25_Witness ==
    /\ task[3].pc = "done"
    /\ Generated(task[1]) /\ Generated(task[2]) /\ Generated(task[3])
    /\ task[3].cache_key = task[1].cache_key
    /\ task[2].cache_key # task[1].cache_key
    /\ task[3].start_time - EndTime(task[1]) >= CACHE_TTL
    /\ task[2].cache_key \in DOMAIN generation_cache
    /\ now - generation_cache[task[2].cache_key].timestamp >= CACHE_TTL
    /\ admin.done_at_stats = {1, 2, 3}
    /\ admin.stats = [total_cached |-> 2, valid |-> 1, expired |-> 1]

\* C26: in a parallel batch no item is blocked by the backoff sleep of
\* another: whenever item i is in the middle of its sleep and item j awaits its upstream
\* call, the call of j can return at once, and j then completes and records
\* its result while i is still asleep, with no time passing.
C26_BackoffBlocksNoSibling ==
    (batch.state = "running" /\ batch.parallel) =>
        \A i, j \in Items :
            (task[i].pc = "sleeping" /\ now < task[i].wake
                 /\ task[j].pc = "calling") =>
                ENABLED (/\ UpstreamSucceedsFor(j, FALSE)
                         /\ task'[i] = task[i]
                         /\ now' = now
                         /\ now' < task[i].wake
                         /\ task'[j].pc = "done"
                         /\ task'[j].response # NullObj
                         /\ generations'[task[j].generation].status = "completed")

\* C26 witness: three items; the first failed its first call and is in the
\* middle of its sleep, the second awaits its upstream call, the third, in
\* ai mode, has gone through its resolver call and its upstream call and
\* has its record completed, at the instant the sleep of the first began
C26_Witness ==
    /\ batch.state = "running" /\ batch.parallel
    /\ Len(batch.requests) = 3
    /\ task[1].pc = "sleeping" /\ now < task[1].wake
    /\ task[2].pc = "calling"
    /\ Generated(task[3])
    /\ task[3].request.mode = "ai"
    /\ EndTime(task[3]) = task[1].wake - 1
    /\ generations[task[3].generation].status = "completed"

\* the entry is whole and is what coroutine t cached: the payload of its
\* response and the instant it ended
EntryOf(entry, tk) ==
    /\ DOMAIN entry = {"data", "timestamp"}
    /\ GenerationResponse(entry.data, FALSE) = tk.response
    /\ entry.timestamp = EndTime(tk)

\* C27: when several requests with the same cache key run concurrently and
\* complete, the cache holds one entry for the key, and it is whole and is
\* the payload and timestamp of the request that wrote last: each write
\* replaces the entry by the writer's own, every entry is the one some
\* request wrote with none written later, every cached answer is the whole
\* payload of a request that generated, and no interleaving of reads,
\* writes, evictions and clear makes a request fail.
C27_LastWriterWinsAndNothingTears ==
    /\ [](/\ \A t \in DOMAIN task : task[t].raised = NullObj
          /\ \A k \in DOMAIN generation_cache :
                \E t \in DOMAIN task :
                    /\ Generated(task[t]) /\ task[t].cache_key = k
                    /\ EntryOf(generation_cache[k], task[t])
                    /\ \A s \in DOMAIN task :
                          (Generated(task[s]) /\ task[s].cache_key = k) =>
                              EndTime(task[s]) <= generation_cache[k].timestamp
          /\ \A t \in DOMAIN task :
                (task[t].response # NullObj /\ task[t].response.cached) =>
                    \E s \in DOMAIN task :
                        /\ Generated(task[s])
                        /\ task[t].response = [task[s].response EXCEPT !.cached = TRUE])
    /\ [][\A t \in DOMAIN task :
            (task[t].pc = "calling" /\ Generated(task'[t])) =>
                /\ DOMAIN generation_cache' =
                       DOMAIN generation_cache \cup {task[t].cache_key}
                /\ EntryOf(generation_cache'[task[t].cache_key], task'[t])
                /\ generation_cache'[task[t].cache_key].timestamp = now']_vars

\* C27 witness: two requests with the same key were both under way; the one
\* posted second completed first, the one posted first completed later and
\* overwrote the entry, which is now its payload
C27_Witness ==
    /\ Generated(task[1]) /\ Generated(task[2])
    /\ task[1].cache_key = task[2].cache_key
    /\ 1 \notin task[2].done_before
    /\ EndTime(task[1]) > EndTime(task[2])
    /\ task[1].cache_key \in DOMAIN generation_cache
    /\ generation_cache[task[1].cache_key].data.id = task[1].generation
    /\ generation_cache[task[1].cache_key].timestamp = EndTime(task[1])

\* C28: a request answered from the cache has no side effect and returns
\* the stored payload as it is: in the step that answers it no record is
\* created or changed, the cache is unchanged, it makes no resolver call and
\* no upstream call and does not wait, and its response is the response of
\* the request that produced the entry (its record id, parameters, quality
\* score and retry_count) with cached = true, even when the two requests
\* differ in user_id, project_id or max_retries.
C28_CacheHitIsVerbatimAndHasNoEffect ==
    [][\A t \in DOMAIN task :
          (Called(t) /\ task'[t].response # NullObj /\ task'[t].response.cached) =>
             /\ generations' = generations
             /\ generation_cache' = generation_cache
             /\ \A s \in DOMAIN task \ {t} : task'[s] = task[s]
             /\ task'[t].pc = "done"
             /\ task'[t].generation = NullNum
             /\ task'[t].calls = 0 /\ task'[t].resolver_calls = 0
             /\ task'[t].slept = 0
             /\ \E s \in DOMAIN task \ {t} :
                   /\ Generated(task[s])
                   /\ SameContent(task[s].request, task'[t].request)
                   /\ task'[t].response = [task[s].response EXCEPT !.cached = TRUE]
                   /\ task'[t].response.id = task[s].generation
                   /\ generations[task[s].generation].user_id
                          = task[s].request.user_id]_vars

\* C28 witness: the first request succeeded on its second upstream call; the
\* second, of another user, was answered from its entry, with the record id
\* and the retry_count 1 of the first
C28_Witness ==
    /\ Generated(task[1])
    /\ task[1].response.retry_count = 1
    /\ task[2].pc = "done"
    /\ task[2].response # NullObj
    /\ task[2].response.cached
    /\ task[2].request.user_id # task[1].request.user_id
    /\ task[2].response.retry_count = 1
    /\ task[2].response.id = task[1].generation
    /\ task[2].calls = 0
    /\ Len(generations) = 1

\* the keys under which the step stores an entry or replaces the one held
Written ==
    {k \in DOMAIN generation_cache' :
        k \notin DOMAIN generation_cache
            \/ generation_cache'[k] # generation_cache[k]}

\* the coroutine of request t takes the step
Runs(t) == task'[t] # task[t]

\* C29: the cache is written only by a request that has use_cache = true and
\* whose generation succeeded, and only after its record was persisted as
\* completed: a step that stores or refreshes an entry is the step of such a
\* request, which returns its response and whose record is completed; a
\* request that fails adds or refreshes no entry; a request with
\* use_cache = false is never answered from the cache, and whatever a step
\* of it stores or removes is stored or removed by a request with
\* use_cache = true resumed in the same step (the next item of a sequential
\* batch); every payload held has status completed.
C29_OnlySuccessfulCachedRequestsWrite ==
    /\ [](/\ \A k \in DOMAIN generation_cache :
                generation_cache[k].data.status = "completed"
          /\ \A t \in DOMAIN task :
                (task[t].response # NullObj /\ task[t].response.cached) =>
                    task[t].request.use_cache)
    /\ [][/\ \A k \in Written :
                \E t \in DOMAIN task :
                    /\ Runs(t)
                    /\ task[t].request.use_cache
                    /\ task[t].cache_key = k
                    /\ Generated(task'[t])
                    /\ generations'[task[t].generation].status = "completed"
                    /\ generations'[task[t].generation].committed
                           = <<"processing", "completed">>
          /\ \A t \in DOMAIN task :
                (Runs(t) /\ task'[t].raised # NullObj) => Written = {}
          /\ \A t \in DOMAIN task :
                (Runs(t) /\ ~task'[t].request.use_cache) =>
                    \A k \in Written \cup Removed :
                        \E s \in DOMAIN task \ {t} :
                            /\ Runs(s)
                            /\ task'[s].request.use_cache
                            /\ task'[s].cache_key = k]_vars

\* the items of the batch that use the cache and have the key of item i
Twins(i) ==
    {j \in Items : /\ batch.requests[j].use_cache
                   /\ SameContent(batch.requests[j], batch.requests[i])}

\* an item before i with the key of i has generated and stored its payload
StoredBefore(i) == \E j \in Twins(i) : j < i /\ Generated(task[j])

C30_SequentialWitness ==
    /\ batch.state = "returned" /\ ~batch.parallel
    /\ Len(batch.requests) = 3
    /\ Twins(1) = {1, 2, 3}
    /\ Generated(task[1]) /\ task[1].calls = 2
    /\ \A i \in {2, 3} :
          /\ task[i].response = [task[1].response EXCEPT !.cached = TRUE]
          /\ task[i].calls = 0
    /\ Len(generations) = 1

====
